---- MODULE Spec2Model ----
(***************************************************************************)
(* Model of gemini-extension/mcp-server/index.js: the skills marketplace   *)
(* MCP server.  findSkills walks the plugins directory, derives a name and *)
(* a description for every SKILL.md, and handleInstallSkill copies one     *)
(* skill into ~/.gemini/skills.                                            *)
(***************************************************************************)
EXTENDS Integers, Sequences, FiniteSets, TLC

VARIABLES
    relPath,      \* findSkills: path.relative(PLUGINS_DIR, root), as directory names
    finalParts,   \* findSkills: the finalParts array of the marker
    skillName,    \* findSkills: finalParts.join("-")
    namePc,       \* "start" before the name is derived, "done" after
    header,       \* the lines of a SKILL.md between its two "---" lines
    description,  \* findSkills: the description extracted from that SKILL.md
    descPc,       \* "start" before the description is extracted, "done" after
    plugins,      \* the tree under PLUGINS_DIR: path -> kind of the entry there
    catalog,      \* what findSkills() gave: raised, or the sorted skills
    walkPc,       \* "start" before findSkills() runs, "done" after
    home,         \* the tree under ~/.gemini/skills (getGeminiSkillsDir())
    home0,        \* that tree before the first request
    last,         \* the last tools/call request and what it was answered
    ncalls,       \* the number of requests handled
    installed,    \* the names some install call answered Installed for
    requested,    \* the names handleInstallSkill was called with
    pc,           \* per server process: where its handleInstallSkill call stands
    req,          \* per server process: the skillName of that call
    pos,          \* per server process: the writes of its cpSync done so far
    seen,         \* per server process: what cpSync's stat of the next target saw
    outc,         \* per server process: what its call returned
    overlap       \* both calls were past the existence check, neither copy complete

nameVars == <<relPath, finalParts, skillName, namePc>>

descVars == <<header, description, descPc>>

walkVars == <<plugins, catalog, walkPc>>

installVars == <<home, home0, last, ncalls, installed, requested>>

raceVars == <<pc, req, pos, seen, outc, overlap>>

vars == <<relPath, finalParts, skillName, namePc, header, description, descPc,
          plugins, catalog, walkPc, home, home0, last, ncalls, installed, requested,
          pc, req, pos, seen, outc, overlap>>

-----------------------------------------------------------------------------
(* Name derivation, index.js lines 52-72 *)

\* Longest relative path (in directories) of a marker's directory.
MaxDepth == 3

\* Directory names used below PLUGINS_DIR.
Segments == {"a", "skills", "testing-handbook-skills", "coverage-analysis"}

RelPaths == UNION {[1..n -> Segments] : n \in 0..MaxDepth}

\* relPath.split(path.sep): the relative path of PLUGINS_DIR itself is "",
\* and "".split(sep) is [""].
Split(rel) == IF rel = <<>> THEN <<"">> ELSE rel

\* parts.filter(p => p !== "skills")
FilterSkills(parts) == SelectSeq(parts, LAMBDA p : p /= "skills")

\* The loop of lines 62-70: keep a part unless it equals the last kept part.
RECURSIVE DedupLoop(_, _, _)
DedupLoop(filteredParts, i, kept) ==
    IF i > Len(filteredParts) THEN kept
    ELSE IF filteredParts[i] /= kept[Len(kept)]
         THEN DedupLoop(filteredParts, i + 1, Append(kept, filteredParts[i]))
         ELSE DedupLoop(filteredParts, i + 1, kept)

Deduplicate(filteredParts) ==
    IF Len(filteredParts) > 0
    THEN DedupLoop(filteredParts, 2, <<filteredParts[1]>>)
    ELSE <<>>

\* A slip: duplicates collapsed before "skills" is filtered out.
FinalPartsDedupFirst(parts) == FilterSkills(Deduplicate(parts))

\* lines 59-70: filter, then collapse.
FinalParts(parts) == Deduplicate(FilterSkills(parts))

\* Array.prototype.join
RECURSIVE Join(_, _)
Join(parts, sep) ==
    IF Len(parts) = 0 THEN ""
    ELSE IF Len(parts) = 1 THEN parts[1]
    ELSE parts[1] \o sep \o Join(Tail(parts), sep)

IdleName ==
    /\ relPath = <<>>
    /\ finalParts = <<>>
    /\ skillName = ""
    /\ namePc = "idle"

IdleDesc ==
    /\ header = <<>>
    /\ description = <<>>
    /\ descPc = "idle"

IdleWalk ==
    /\ plugins = <<>>
    /\ catalog = <<>>
    /\ walkPc = "idle"

NoFault == [op |-> "none", after |-> 0]

NoCall == [seq |-> 0, tool |-> "", arg |-> "", fault |-> NoFault,
           kind |-> "none", dest |-> <<>>, reason |-> "", text |-> <<>>]

IdleInstall ==
    /\ home = <<>>
    /\ home0 = <<>>
    /\ last = NoCall
    /\ ncalls = 0
    /\ installed = {}
    /\ requested = {}

Servers == {1, 2}

IdleRace ==
    /\ pc = [p \in Servers |-> "idle"]
    /\ req = [p \in Servers |-> ""]
    /\ pos = [p \in Servers |-> 0]
    /\ seen = [p \in Servers |-> [known |-> FALSE, there |-> FALSE]]
    /\ outc = [p \in Servers |-> "none"]
    /\ overlap = FALSE

InitName ==
    /\ relPath \in RelPaths
    /\ finalParts = <<>>
    /\ skillName = ""
    /\ namePc = "start"
    /\ IdleDesc
    /\ IdleWalk
    /\ IdleInstall
    /\ IdleRace

DeriveName ==
    /\ namePc = "start"
    /\ finalParts' = FinalParts(Split(relPath))
    /\ skillName' = Join(finalParts', "-")
    /\ namePc' = "done"
    /\ UNCHANGED <<relPath, descVars, walkVars, installVars, raceVars>>

NextName == DeriveName

SpecName == InitName /\ [][NextName]_vars

\* C3: the segment list joined into the name holds no "skills" segment and no
\* two equal adjacent segments; a/skills/a is named "a" and
\* testing-handbook-skills/skills/coverage-analysis is named
\* "testing-handbook-skills-coverage-analysis".
C3_NameSegments ==
    namePc = "done" =>
        /\ \A i \in 1..Len(finalParts) : finalParts[i] /= "skills"
        /\ \A i \in 1..(Len(finalParts) - 1) : finalParts[i] /= finalParts[i + 1]
        /\ skillName = Join(finalParts, "-")
        /\ relPath = <<"a", "skills", "a">> => skillName = "a"
        /\ relPath = <<"testing-handbook-skills", "skills", "coverage-analysis">>
              => skillName = "testing-handbook-skills-coverage-analysis"

C3_Witness ==
    /\ namePc = "done"
    /\ relPath = <<"a", "skills", "a">>
    /\ finalParts = <<"a">>
    /\ skillName = "a"

-----------------------------------------------------------------------------
(* Description extraction, index.js lines 75-111.  Text is a sequence of   *)
(* tokens: the key "description:", ">", a space, a line break, "x" for any *)
(* other visible text, and "---" for a delimiter line's dashes.            *)

DescKey == "description:"
Gt == ">"
Sp == " "
Nl == "\n"
Txt == "x"
Delim == "---"

HeaderChars == {DescKey, Gt, Sp, Nl, Txt}

\* Longest header, in tokens.
MaxHeaderLen == 7

Headers == UNION {[1..n -> HeaderChars] : n \in 0..MaxHeaderLen}

\* let description = "No description available."
Placeholder == <<"No description available.">>

\* A SKILL.md with a delimited header: "---\n" header "\n---\n".
Content(h) == <<Delim, Nl>> \o h \o <<Nl, Delim, Nl>>

\* The character at i, or "" past either end.
At(s, i) == IF i \in 1..Len(s) THEN s[i] ELSE ""

\* The regular expressions' \s
IsWs(ch) == ch \in {Sp, Nl}

AllWs(s, a, b) == \A i \in a..b : IsWs(At(s, i))

Max(S) == CHOOSE x \in S : \A y \in S : y <= x

Min(S) == CHOOSE x \in S : \A y \in S : x <= y

\* One way /^---\s*\n([\s\S]*?)\n---\s*\n/ matches c: \s* takes k characters
\* and the group n characters.
FmValid(c, k, n) ==
    /\ At(c, 1) = Delim
    /\ AllWs(c, 2, 1 + k)
    /\ At(c, 2 + k) = Nl
    /\ At(c, 3 + k + n) = Nl
    /\ At(c, 4 + k + n) = Delim
    /\ \E k3 \in 0..Len(c) :
          /\ AllWs(c, 5 + k + n, 4 + k + n + k3)
          /\ At(c, 5 + k + n + k3) = Nl

\* content.match(/^---\s*\n([\s\S]*?)\n---\s*\n/), line 79: the first match
\* in backtracking order, \s* greedy and the group lazy.
FrontMatter(c) ==
    LET R == 0..Len(c)
        Ks == {k \in R : \E n \in R : FmValid(c, k, n)}
    IN  IF Ks = {} THEN [matched |-> FALSE, text |-> <<>>]
        ELSE LET k == Max(Ks)
                 n == Min({m \in R : FmValid(c, k, m)})
             IN  [matched |-> TRUE, text |-> SubSeq(c, 3 + k, 2 + k + n)]

\* One way /^description:\s*(>)?\s*(.+)$/m matches y from s: the first \s*
\* takes k1 characters, (>)? takes the ">" when g, the second \s* takes k2.
\* (.+)$ then takes the rest of the line, which must not be empty.
DmValid(y, s, k1, g, k2) ==
    LET a == s + 1 + k1 + (IF g THEN 1 ELSE 0)
        q == a + k2
    IN  /\ At(y, s) = DescKey
        /\ (s = 1 \/ At(y, s - 1) = Nl)
        /\ AllWs(y, s + 1, s + k1)
        /\ g => At(y, s + 1 + k1) = Gt
        /\ AllWs(y, a, q - 1)
        /\ q <= Len(y)
        /\ y[q] /= Nl

\* The last character of the line that holds position q.
RECURSIVE LineEnd(_, _)
LineEnd(y, q) == IF At(y, q + 1) \in {Nl, ""} THEN q ELSE LineEnd(y, q + 1)

\* yamlText.match(/^description:\s*(>)?\s*(.+)$/m), line 82: the leftmost
\* match, and at it the first in backtracking order (every quantifier greedy).
DescMatch(y) ==
    LET R == 0..Len(y)
        Ss == {s \in 1..Len(y) :
                 /\ y[s] = DescKey
                 /\ \E k1 \in R : AllWs(y, s + 1, s + k1)
                       /\ \E g \in BOOLEAN, k2 \in R : DmValid(y, s, k1, g, k2)}
    IN  IF Ss = {} THEN [matched |-> FALSE, g1 |-> FALSE, g2 |-> <<>>]
        ELSE LET s == Min(Ss)
                 k1 == Max({k \in R : AllWs(y, s + 1, s + k)
                                /\ \E g \in BOOLEAN, k2 \in R : DmValid(y, s, k, g, k2)})
                 g == \E k2 \in R : DmValid(y, s, k1, TRUE, k2)
                 k2 == Max({k \in R : DmValid(y, s, k1, g, k)})
                 q == s + 1 + k1 + (IF g THEN 1 ELSE 0) + k2
             IN  [matched |-> TRUE, g1 |-> g, g2 |-> SubSeq(y, q, LineEnd(y, q))]

\* String.prototype.split("\n")
RECURSIVE SplitLines(_, _, _)
SplitLines(y, i, cur) ==
    IF i > Len(y) THEN <<cur>>
    ELSE IF y[i] = Nl THEN <<cur>> \o SplitLines(y, i + 1, <<>>)
    ELSE SplitLines(y, i + 1, Append(cur, y[i]))

\* String.prototype.trim
RECURSIVE Trim(_)
Trim(s) ==
    IF Len(s) = 0 THEN s
    ELSE IF IsWs(s[1]) THEN Trim(Tail(s))
    ELSE IF IsWs(s[Len(s)]) THEN Trim(SubSeq(s, 1, Len(s) - 1))
    ELSE s

\* line.match(/^description:\s*>/), line 90
IsFoldedKeyLine(line) ==
    /\ At(line, 1) = DescKey
    /\ \E k \in 0..Len(line) : AllWs(line, 2, 1 + k) /\ At(line, 2 + k) = Gt

\* line.startsWith('  ')
IsIndented(line) == At(line, 1) = Sp /\ At(line, 2) = Sp

\* descLines.join(" ")
RECURSIVE JoinText(_)
JoinText(ls) ==
    IF Len(ls) = 0 THEN <<>>
    ELSE IF Len(ls) = 1 THEN ls[1]
    ELSE ls[1] \o <<Sp>> \o JoinText(Tail(ls))

\* The loop of lines 89-102.
RECURSIVE FoldLoop(_, _, _, _)
FoldLoop(lines, i, capturing, descLines) ==
    IF i > Len(lines) THEN descLines
    ELSE IF IsFoldedKeyLine(lines[i]) THEN FoldLoop(lines, i + 1, TRUE, descLines)
    ELSE IF ~capturing THEN FoldLoop(lines, i + 1, capturing, descLines)
    ELSE IF Len(Trim(lines[i])) = 0 THEN FoldLoop(lines, i + 1, capturing, descLines)
    ELSE IF IsIndented(lines[i])
         THEN FoldLoop(lines, i + 1, capturing, Append(descLines, Trim(lines[i])))
    ELSE descLines

\* lines 75-111: the description of a SKILL.md with the given content.
ExtractDescription(content) ==
    LET fm == FrontMatter(content)
        dm == DescMatch(fm.text)
    IN  IF ~fm.matched THEN Placeholder
        ELSE IF ~dm.matched THEN Placeholder
        ELSE IF dm.g1 THEN JoinText(FoldLoop(SplitLines(fm.text, 1, <<>>), 1, FALSE, <<>>))
        ELSE Trim(dm.g2)

InitDesc ==
    /\ header \in Headers
    /\ description = <<>>
    /\ descPc = "start"
    /\ IdleName
    /\ IdleWalk
    /\ IdleInstall
    /\ IdleRace

ReadDescription ==
    /\ descPc = "start"
    /\ description' = ExtractDescription(Content(header))
    /\ descPc' = "done"
    /\ UNCHANGED <<header, nameVars, walkVars, installVars, raceVars>>

NextDesc == ReadDescription

SpecDesc == InitDesc /\ [][NextDesc]_vars

\* The header's lines, and those that start with the description key.
HeaderLines == SplitLines(header, 1, <<>>)

KeyLines == {i \in 1..Len(HeaderLines) : At(HeaderLines[i], 1) = DescKey}

\* The one description line of a header that has exactly one.
TheKeyLine == CHOOSE i \in KeyLines : TRUE

\* What follows the key on the description line, trimmed.
KeyValue == Trim(Tail(HeaderLines[TheKeyLine]))

\* The lines after line i up to the first that is blank or not indented,
\* each trimmed.
RECURSIVE ContinuationLines(_, _)
ContinuationLines(lines, i) ==
    IF i > Len(lines) THEN <<>>
    ELSE IF IsIndented(lines[i]) /\ Len(Trim(lines[i])) > 0
         THEN <<Trim(lines[i])>> \o ContinuationLines(lines, i + 1)
    ELSE <<>>

\* C5: when the description line's value is ">" alone, the description is the
\* indented lines that follow it, up to the first blank or unindented line,
\* each trimmed, joined with one space (the empty string when there are none).
C5_FoldedDescription ==
    (descPc = "done" /\ Cardinality(KeyLines) = 1 /\ KeyValue = <<Gt>>) =>
        description = JoinText(ContinuationLines(HeaderLines, TheKeyLine + 1))

\* C6: when the description line's value is not ">" alone, the description is
\* the rest of that line, trimmed, and nothing from any other line.
C6_InlineDescription ==
    (descPc = "done" /\ Cardinality(KeyLines) = 1 /\ KeyValue /= <<Gt>>) =>
        description = KeyValue

-----------------------------------------------------------------------------
(* The directory walk and the catalog, index.js lines 26-50 and 113-122.   *)
(* A tree maps each path that exists (a sequence of names below its root)  *)
(* to the kind of entry there:                                             *)
(*   "dir"      a directory that can be listed                             *)
(*   "noread"   a directory whose listing fails (readdirSync throws)       *)
(*   "file"     a readable file                                            *)
(*   "nordfile" a file whose content cannot be read (readFileSync throws)  *)
(*   "nostat"   an entry statSync throws on, such as a dangling link       *)

NoTree == <<>>

\* fs.existsSync
Exists(t, p) == p \in DOMAIN t

\* The order in which readdirSync lists names.
DirOrder == <<"SKILL.md", "a", "b", "resource.txt", "skills">>

\* fs.readdirSync(dir) of a listable directory
Readdir(t, dir) == SelectSeq(DirOrder, LAMBDA n : Append(dir, n) \in DOMAIN t)

\* walkSync, lines 26-39.  The result is the file list, or raised when
\* readdirSync or statSync threw.
RECURSIVE WalkSync(_, _, _), WalkEntries(_, _, _, _)
WalkEntries(t, dir, names, acc) ==
    IF acc.raised \/ Len(names) = 0 THEN acc
    ELSE LET filepath == Append(dir, Head(names))
         IN  IF t[filepath] = "nostat"
             THEN [raised |-> TRUE, files |-> acc.files]
             ELSE IF t[filepath] \in {"dir", "noread"}
             THEN WalkEntries(t, dir, Tail(names), WalkSync(t, filepath, acc.files))
             ELSE WalkEntries(t, dir, Tail(names),
                              [raised |-> FALSE, files |-> Append(acc.files, filepath)])

WalkSync(t, dir, filelist) ==
    IF ~Exists(t, dir) THEN [raised |-> FALSE, files |-> filelist]
    ELSE IF t[dir] /= "dir" THEN [raised |-> TRUE, files |-> filelist]
    ELSE WalkEntries(t, dir, Readdir(t, dir), [raised |-> FALSE, files |-> filelist])

\* path.basename, path.dirname
Basename(f) == f[Len(f)]

Dirname(f) == SubSeq(f, 1, Len(f) - 1)

\* The text of the SKILL.md files of the trees below.
MarkerText(f) ==
    IF Len(f) = 1 THEN Content(<<DescKey, Sp, Txt>>)
    ELSE Content(<<DescKey, Gt, Nl, Sp, Sp, Txt>>)

\* lines 52-117: the catalog entry of one SKILL.md
SkillOf(t, skillFile) ==
    [name |-> Join(FinalParts(Split(Dirname(skillFile))), "-"),
     path |-> Dirname(skillFile),
     description |-> IF t[skillFile] = "nordfile" THEN Placeholder
                     ELSE ExtractDescription(MarkerText(skillFile))]

\* The names of the trees below, in the order of String.prototype.localeCompare.
Collation == <<"", "a", "b", "SKILL.md">>

Rank(name) == CHOOSE i \in 1..Len(Collation) : Collation[i] = name

\* skills.sort((a, b) => a.name.localeCompare(b.name)), line 121: stable.
RECURSIVE InsertSkill(_, _)
InsertSkill(sorted, e) ==
    IF Len(sorted) = 0 THEN <<e>>
    ELSE IF Rank(sorted[Len(sorted)].name) <= Rank(e.name) THEN Append(sorted, e)
    ELSE Append(InsertSkill(SubSeq(sorted, 1, Len(sorted) - 1), e), sorted[Len(sorted)])

RECURSIVE SortSkills(_, _)
SortSkills(skills, sorted) ==
    IF Len(skills) = 0 THEN sorted
    ELSE SortSkills(Tail(skills), InsertSkill(sorted, Head(skills)))

RECURSIVE SkillsOf(_, _)
SkillsOf(t, skillFiles) ==
    IF Len(skillFiles) = 0 THEN <<>>
    ELSE <<SkillOf(t, Head(skillFiles))>> \o SkillsOf(t, Tail(skillFiles))

\* findSkills, lines 41-123, over the tree t.
FindSkills(t) ==
    IF ~Exists(t, <<>>) THEN [raised |-> FALSE, skills |-> <<>>]
    ELSE LET allFiles == WalkSync(t, <<>>, <<>>)
             skillFiles == SelectSeq(allFiles.files, LAMBDA f : Basename(f) = "SKILL.md")
         IN  IF allFiles.raised THEN [raised |-> TRUE, skills |-> <<>>]
             ELSE [raised |-> FALSE, skills |-> SortSkills(SkillsOf(t, skillFiles), <<>>)]

\* Deepest entry of the trees walked.
MaxTreeDepth == 2

WalkNames == {"a", "SKILL.md"}

WalkPaths == UNION {[1..n -> WalkNames] : n \in 0..MaxTreeDepth}

Kinds == {"dir", "noread", "file", "nordfile", "nostat"}

\* Every tree over WalkPaths: a path exists only inside a directory, and the
\* root, when it exists, is a directory or a file.
WellFormed(k) ==
    /\ k[<<>>] \in {"absent", "dir", "noread", "file"}
    /\ \A p \in WalkPaths :
          (Len(p) > 0 /\ k[p] /= "absent") => k[Dirname(p)] \in {"dir", "noread"}

WalkTrees ==
    {[p \in {q \in WalkPaths : k[q] /= "absent"} |-> k[p]] :
        k \in {k \in [WalkPaths -> Kinds \cup {"absent"}] : WellFormed(k)}}

InitWalk ==
    /\ plugins \in WalkTrees
    /\ catalog = <<>>
    /\ walkPc = "start"
    /\ IdleName
    /\ IdleDesc
    /\ IdleInstall
    /\ IdleRace

BuildCatalog ==
    /\ walkPc = "start"
    /\ catalog' = FindSkills(plugins)
    /\ walkPc' = "done"
    /\ UNCHANGED <<plugins, nameVars, descVars, installVars, raceVars>>

NextWalk == BuildCatalog

SpecWalk == InitWalk /\ [][NextWalk]_vars

\* The SKILL.md files of a tree.
Markers(t) == {p \in DOMAIN t : Len(p) > 0 /\ Basename(p) = "SKILL.md"
                                 /\ t[p] \in {"file", "nordfile"}}

\* C4: the catalog build never raises, whatever the tree, and gives the empty
\* catalog when the root is absent or unreadable or the tree has no SKILL.md.
C4_BuildNeverFails ==
    walkPc = "done" =>
        /\ ~catalog.raised
        /\ (~Exists(plugins, <<>>) \/ plugins[<<>>] = "noread" \/ Markers(plugins) = {})
              => catalog.skills = <<>>

-----------------------------------------------------------------------------
(* The tools/call handler, handleListSkills and handleInstallSkill,        *)
(* index.js lines 125-170 and 214-234.  One server handles one request at  *)
(* a time: the handler has no await, so it runs to completion.             *)

ListTool == "list_marketplace_skills"
InstallTool == "install_marketplace_skill"

\* args.skill_name of a request that gives none (no skill name holds a "/").
Undefined == "/undefined/"

\* A requested name that no skill has.
UnknownName == "zzz"

Args == {"", "a", "b", UnknownName, Undefined}

\* !skill_name, line 225
Falsy(arg) == arg \in {"", Undefined}

\* The tree with the given files and the directories that hold them.
TreeOf(files) ==
    [p \in files \cup UNION {{SubSeq(f, 1, n) : n \in 0..(Len(f) - 1)} : f \in files}
        |-> IF p \in files THEN "file" ELSE "dir"]

\* t with the entry at p set to kind k.
Put(t, p, k) == [q \in DOMAIN t \cup {p} |-> IF q = p THEN k ELSE t[q]]

\* A plugins directory: a SKILL.md at its root, skill a with a resource,
\* and two skills whose derived name is b.
Marketplace ==
    TreeOf({<<"SKILL.md">>,
            <<"a", "skills", "a", "SKILL.md">>,
            <<"a", "skills", "a", "resource.txt">>,
            <<"b", "SKILL.md">>,
            <<"skills", "b", "SKILL.md">>})

PluginStates ==
    {Marketplace,
     TreeOf({<<"a", "skills", "a", "SKILL.md">>, <<"a", "skills", "a", "resource.txt">>}),
     Put(Marketplace, <<>>, "noread"),
     Put(Marketplace, <<"b", "SKILL.md">>, "nostat"),
     TreeOf({<<"resource.txt">>}),
     NoTree}

HomeStates ==
    {NoTree,
     TreeOf({}) @@ (<<>> :> "dir"),
     TreeOf({<<"b", "SKILL.md">>})}

\* The most entries a failing copy has written when it fails.
MaxCopied == 2

\* The most requests one behaviour holds.
MaxCalls == 2

\* What the file system does to one install call: nothing, fail the mkdirSync
\* of line 158, or fail the cpSync of line 165 after it wrote `after` entries.
Faults ==
    {NoFault, [op |-> "mkdir", after |-> 0]}
        \cup {[op |-> "copy", after |-> k] : k \in 0..MaxCopied}

\* path.join(destBase, skillName), relative to destBase
DestDir(name) == IF name = "" THEN <<>> ELSE <<name>>

\* What fs.cpSync(src, dest, {recursive: true}) writes, in order: the
\* destination directory, then the source's entries, depth first.
RECURSIVE CopyDir(_, _, _), CopyEntries(_, _, _, _)
CopyEntries(t, src, dest, names) ==
    IF Len(names) = 0 THEN <<>>
    ELSE LET from == Append(src, Head(names))
             to == Append(dest, Head(names))
         IN  (IF t[from] \in {"dir", "noread"} THEN CopyDir(t, from, to)
              ELSE <<[path |-> to, kind |-> "file"]>>)
             \o CopyEntries(t, src, dest, Tail(names))

CopyDir(t, src, dest) ==
    <<[path |-> dest, kind |-> "dir"]>> \o CopyEntries(t, src, dest, Readdir(t, src))

\* The tree h after the first n of the writes ops.
RECURSIVE ApplyOps(_, _, _)
ApplyOps(h, ops, n) ==
    IF n = 0 THEN h
    ELSE Put(ApplyOps(h, ops, n - 1), ops[n].path, ops[n].kind)

\* A slip: a name that matches no entry falls back to the first entry.
TargetIndexOrFirst(skills, name) ==
    LET hits == {i \in 1..Len(skills) : skills[i].name = name}
    IN  IF hits /= {} THEN Min(hits) ELSE IF Len(skills) > 0 THEN 1 ELSE 0

\* skills.find(s => s.name === skillName), line 142: the index of the first
\* entry of that name, 0 when there is none.
TargetIndex(skills, name) ==
    LET hits == {i \in 1..Len(skills) : skills[i].name = name}
    IN  IF hits = {} THEN 0 ELSE Min(hits)

\* A slip: the check of line 151 left out.
DestExistsNever(destDir) == FALSE

\* fs.existsSync(destDir), line 151
DestExists(destDir) == Exists(home, destDir)

Outcome(kind, dest, reason) == [kind |-> kind, dest |-> dest, reason |-> reason]

\* fs.cpSync(targetSkill.path, destDir, {recursive: true}) in its try, lines
\* 164-169: ops are the writes of the copy, based the tree they go to.
CopyInto(based, ops, destDir, fault) ==
    IF fault.op = "copy" /\ fault.after < Len(ops)
    THEN [outcome |-> Outcome("InstallError", <<>>, "copy"),
          home |-> ApplyOps(based, ops, fault.after)]
    ELSE [outcome |-> Outcome("Installed", destDir, ""),
          home |-> ApplyOps(based, ops, Len(ops))]

\* lines 148-169: the existence check, the mkdirSync of destBase, the copy.
InstallTarget(src, destDir, fault) ==
    IF DestExists(destDir)
    THEN [outcome |-> Outcome("AlreadyInstalled", destDir, ""), home |-> home]
    ELSE IF Exists(home, <<>>)
    THEN CopyInto(home, CopyDir(plugins, src, destDir), destDir, fault)
    ELSE IF fault.op = "mkdir"
    THEN [outcome |-> Outcome("InstallError", <<>>, "mkdir"), home |-> home]
    ELSE CopyInto(Put(home, <<>>, "dir"), CopyDir(plugins, src, destDir), destDir, fault)

\* lines 142-146: the lookup of the target among the skills found.
ResolveTarget(skills, idx, name, fault) ==
    IF idx = 0
    THEN [outcome |-> Outcome("NotFound", <<>>, ""), home |-> home]
    ELSE InstallTarget(skills[idx].path, DestDir(name), fault)

InstallFrom(found, name, fault) ==
    IF found.raised
    THEN [outcome |-> Outcome("Raised", <<>>, "findSkills"), home |-> home]
    ELSE ResolveTarget(found.skills, TargetIndex(found.skills, name), name, fault)

\* handleInstallSkill, lines 140-170: the outcome and the tree it leaves
\* under ~/.gemini/skills.  "Raised" is an exception that leaves the function.
HandleInstallSkill(name, fault) == InstallFrom(FindSkills(plugins), name, fault)

\* Concatenation of a text's tokens.
RECURSIVE Str(_)
Str(text) == IF Len(text) = 0 THEN "" ELSE text[1] \o Str(Tail(text))

RECURSIVE ListingLines(_)
ListingLines(skills) ==
    IF Len(skills) = 0 THEN <<>>
    ELSE <<"- **" \o skills[1].name \o "**:", "  " \o Str(skills[1].description)>>
         \o ListingLines(Tail(skills))

\* handleListSkills, lines 125-138: the lines of the text it returns.
HandleListSkills(skills) ==
    IF Len(skills) = 0 THEN <<"No skills found in the plugins directory.">>
    ELSE <<"# Available Skills\n">> \o ListingLines(skills)

Init ==
    /\ plugins \in PluginStates
    /\ home \in HomeStates
    /\ home0 = home
    /\ last = NoCall
    /\ ncalls = 0
    /\ installed = {}
    /\ requested = {}
    /\ catalog = <<>>
    /\ walkPc = "idle"
    /\ IdleName
    /\ IdleDesc
    /\ IdleRace

Answer(tool, arg, fault, outcome, text) ==
    /\ ncalls' = ncalls + 1
    /\ last' = [seq |-> ncalls + 1, tool |-> tool, arg |-> arg, fault |-> fault,
                kind |-> outcome.kind, dest |-> outcome.dest,
                reason |-> outcome.reason, text |-> text]

AnswerList(found) ==
    IF found.raised
    THEN Answer(ListTool, "", NoFault, Outcome("Raised", <<>>, "findSkills"), <<>>)
    ELSE Answer(ListTool, "", NoFault, Outcome("Listed", <<>>, ""),
                HandleListSkills(found.skills))

AnswerInstall(arg, fault, r) ==
    /\ Answer(InstallTool, arg, fault, r.outcome, <<>>)
    /\ home' = r.home
    /\ installed' = IF r.outcome.kind = "Installed"
                    THEN installed \cup {arg} ELSE installed
    /\ requested' = requested \cup {arg}

\* tools/call list_marketplace_skills, lines 217-221
CallListSkills ==
    /\ ncalls < MaxCalls
    /\ AnswerList(FindSkills(plugins))
    /\ UNCHANGED <<home, home0, installed, requested, plugins, catalog, walkPc,
                   nameVars, descVars, raceVars>>

\* tools/call install_marketplace_skill, lines 223-231
CallInstallSkill(arg, fault) ==
    /\ ncalls < MaxCalls
    /\ IF Falsy(arg)
       THEN /\ Answer(InstallTool, arg, NoFault,
                      Outcome("MissingArgument", <<>>, ""), <<>>)
            /\ UNCHANGED <<home, installed, requested>>
       ELSE AnswerInstall(arg, fault, HandleInstallSkill(arg, fault))
    /\ UNCHANGED <<home0, plugins, catalog, walkPc, nameVars, descVars, raceVars>>

\* tools/call of any other tool, line 233
CallUnknownTool ==
    /\ ncalls < MaxCalls
    /\ Answer("other", "", NoFault, Outcome("UnknownTool", <<>>, ""), <<>>)
    /\ UNCHANGED <<home, home0, installed, requested, plugins, catalog, walkPc,
                   nameVars, descVars, raceVars>>

Next ==
    \/ CallListSkills
    \/ \E arg \in Args, fault \in Faults : CallInstallSkill(arg, fault)
    \/ CallUnknownTool

Spec == Init /\ [][Next]_vars

\* The names of the catalog, when the build does not raise.
CatalogNames ==
    LET found == FindSkills(plugins)
    IN  IF found.raised THEN {}
        ELSE {found.skills[i].name : i \in 1..Len(found.skills)}

\* The first catalog entry of the given name.
EntryOf(name) ==
    LET found == FindSkills(plugins)
    IN  found.skills[TargetIndex(found.skills, name)]

\* Tree h holds the whole of the named skill under its destination.
CompleteCopy(h, name) ==
    LET ops == CopyDir(plugins, EntryOf(name).path, DestDir(name))
    IN  \A i \in 1..Len(ops) : Exists(h, ops[i].path) /\ h[ops[i].path] = ops[i].kind

\* This step is a call of handleInstallSkill.
InstallStep ==
    /\ ncalls' = ncalls + 1
    /\ last'.tool = InstallTool
    /\ ~Falsy(last'.arg)

\* C1: an install of a catalogued name whose destination does not exist,
\* with no file-system failure, is answered Installed and leaves the whole
\* skill at the destination; the install call for the same name that follows
\* it is answered AlreadyInstalled and leaves the destination tree as it was.
C1_InstallTwice ==
    [][InstallStep =>
          /\ (/\ last'.arg \in CatalogNames
              /\ ~Exists(home, DestDir(last'.arg))
              /\ last'.fault = NoFault)
                => /\ last'.kind = "Installed"
                   /\ last'.dest = DestDir(last'.arg)
                   /\ CompleteCopy(home', last'.arg)
          /\ (/\ last.tool = InstallTool
              /\ last.kind = "Installed"
              /\ last.arg = last'.arg)
                => /\ last'.kind = "AlreadyInstalled"
                   /\ last'.dest = last.dest
                   /\ home' = home]_vars

C1_Witness ==
    /\ ncalls = 2
    /\ last.tool = InstallTool
    /\ last.arg = "a"
    /\ last.kind = "AlreadyInstalled"
    /\ installed = {"a"}
    /\ requested = {"a"}
    /\ ~Exists(home0, <<"a">>)
    /\ CompleteCopy(home, "a")

\* C2: an install of a name that no entry of the catalog has is answered
\* NotFound and changes nothing on the file system: the installed-skills root
\* is not created and nothing is copied.
C2_NotFoundWritesNothing ==
    [][(/\ InstallStep
        /\ ~FindSkills(plugins).raised
        /\ last'.arg \notin CatalogNames)
          => /\ last'.kind = "NotFound"
             /\ home' = home
             /\ plugins' = plugins]_vars

C2_Witness ==
    /\ last.tool = InstallTool
    /\ last.arg = UnknownName
    /\ last.kind = "NotFound"
    /\ CatalogNames /= {}
    /\ home = NoTree

\* C7: handleInstallSkill answers every name with one of NotFound,
\* AlreadyInstalled, Installed and InstallError and never raises; a failed
\* mkdirSync and a failed copy are both an InstallError with the reason.
C7_InstallNeverRaises ==
    (last.tool = InstallTool /\ ~Falsy(last.arg)) =>
        /\ last.kind \in {"NotFound", "AlreadyInstalled", "Installed", "InstallError"}
        /\ last.kind = "InstallError" => last.reason \in {"mkdir", "copy"}

\* C9: with only install calls for a name N whose destination did not exist
\* at the start, the destination of N, whenever it exists, holds the whole
\* skill, and AlreadyInstalled is answered for N only after an Installed.
C9_DestinationComplete ==
    \A n \in CatalogNames \ {""} :
        (~Exists(home0, DestDir(n)) /\ requested \subseteq {n}) =>
            /\ Exists(home, DestDir(n)) => CompleteCopy(home, n)
            /\ (last.tool = InstallTool /\ last.arg = n /\ last.kind = "AlreadyInstalled")
                  => n \in installed

\* C10: the install tool, given the name of any entry of the catalog, is not
\* answered NotFound nor the missing-skill_name fault.
C10_ListedIsInstallable ==
    (last.tool = InstallTool /\ last.arg \in CatalogNames) =>
        last.kind \notin {"NotFound", "MissingArgument"}

-----------------------------------------------------------------------------
(* Two server processes (one per client, each over its own stdio) that     *)
(* share ~/.gemini/skills.  Within a server handleInstallSkill runs to     *)
(* completion; between servers its file-system calls interleave.           *)

RaceNames == {"a", "b"}

\* The writes of server p's cpSync.
RaceOps(p) == CopyDir(plugins, EntryOf(req[p]).path, DestDir(req[p]))

\* Both calls are for one name and past the check of line 151, and neither
\* has completed its copy.
BothPastCheck(stage, names) ==
    /\ \A p \in Servers : stage[p] \in {"base", "copy"}
    /\ \A p, q \in Servers : names[p] = names[q]

Track == overlap' = (overlap \/ BothPastCheck(pc', req'))

InitRace ==
    /\ plugins = Marketplace
    /\ home \in HomeStates
    /\ home0 = home
    /\ pc = [p \in Servers |-> "idle"]
    /\ req = [p \in Servers |-> ""]
    /\ pos = [p \in Servers |-> 0]
    /\ seen = [p \in Servers |-> [known |-> FALSE, there |-> FALSE]]
    /\ outc = [p \in Servers |-> "none"]
    /\ overlap = FALSE
    /\ last = NoCall
    /\ ncalls = 0
    /\ installed = {}
    /\ requested = {}
    /\ catalog = <<>>
    /\ walkPc = "idle"
    /\ IdleName
    /\ IdleDesc

RaceFrame == UNCHANGED <<plugins, home0, last, ncalls, installed, requested,
                         catalog, walkPc, nameVars, descVars>>

Return(p, kind) ==
    /\ pc' = [pc EXCEPT ![p] = "done"]
    /\ outc' = [outc EXCEPT ![p] = kind]

\* lines 223-229: the request reaches handleInstallSkill.
Receive(p, name) ==
    /\ pc[p] = "idle"
    /\ pc' = [pc EXCEPT ![p] = "resolve"]
    /\ req' = [req EXCEPT ![p] = name]
    /\ UNCHANGED <<home, pos, seen, outc>>
    /\ RaceFrame
    /\ Track

ResolveWith(p, found) ==
    IF found.raised THEN Return(p, "Raised")
    ELSE IF TargetIndex(found.skills, req[p]) = 0 THEN Return(p, "NotFound")
    ELSE pc' = [pc EXCEPT ![p] = "check"] /\ UNCHANGED outc

\* lines 141-146
Resolve(p) ==
    /\ pc[p] = "resolve"
    /\ ResolveWith(p, FindSkills(plugins))
    /\ UNCHANGED <<home, req, pos, seen>>
    /\ RaceFrame
    /\ Track

\* lines 151-153: fs.existsSync(destDir)
CheckDest(p) ==
    /\ pc[p] = "check"
    /\ IF Exists(home, DestDir(req[p]))
       THEN Return(p, "AlreadyInstalled")
       ELSE pc' = [pc EXCEPT ![p] = "base"] /\ UNCHANGED outc
    /\ UNCHANGED <<home, req, pos, seen>>
    /\ RaceFrame
    /\ Track

\* lines 156-162: mkdirSync(destBase, {recursive: true}) when it is missing
EnsureBase(p) ==
    /\ pc[p] = "base"
    /\ home' = IF Exists(home, <<>>) THEN home ELSE Put(home, <<>>, "dir")
    /\ pc' = [pc EXCEPT ![p] = "copy"]
    /\ UNCHANGED <<req, pos, seen, outc>>
    /\ RaceFrame
    /\ Track

\* line 165, cpSync: the stat of the next target before it is written
CopyStat(p) ==
    /\ pc[p] = "copy"
    /\ ~seen[p].known
    /\ seen' = [seen EXCEPT ![p] = [known |-> TRUE,
                                    there |-> Exists(home, RaceOps(p)[pos[p] + 1].path)]]
    /\ UNCHANGED <<home, pc, req, pos, outc>>
    /\ RaceFrame
    /\ Track

\* A variant: creating a directory that exists answers AlreadyInstalled, as
\* if the existence check were made again with the creation.
WriteOutcomeExclusive(op, there, now) ==
    IF op.kind = "dir" /\ (there \/ now) THEN "already"
    ELSE "write"

\* What cpSync does with a target: a directory its stat saw is copied into,
\* one that appeared since makes mkdirSync throw EEXIST, anything else is
\* written (files are overwritten, force being true).
WriteOutcome(op, there, now) ==
    IF op.kind = "dir" /\ there THEN "skip"
    ELSE IF op.kind = "dir" /\ now THEN "throw"
    ELSE "write"

CopyWriteAs(p, ops, what) ==
    /\ home' = IF what = "write"
               THEN Put(home, ops[pos[p] + 1].path, ops[pos[p] + 1].kind)
               ELSE home
    /\ pos' = [pos EXCEPT ![p] = IF what \in {"write", "skip"} THEN @ + 1 ELSE @]
    /\ IF what = "throw" THEN Return(p, "InstallError")
       ELSE IF what = "already" THEN Return(p, "AlreadyInstalled")
       ELSE IF pos[p] + 1 = Len(ops) THEN Return(p, "Installed")
       ELSE UNCHANGED <<pc, outc>>

\* line 165, cpSync: the write of the next target
CopyWrite(p) ==
    /\ pc[p] = "copy"
    /\ seen[p].known
    /\ CopyWriteAs(p, RaceOps(p),
                   WriteOutcome(RaceOps(p)[pos[p] + 1], seen[p].there,
                                Exists(home, RaceOps(p)[pos[p] + 1].path)))
    /\ seen' = [seen EXCEPT ![p] = [known |-> FALSE, there |-> FALSE]]
    /\ UNCHANGED req
    /\ RaceFrame
    /\ Track

NextRace ==
    \E p \in Servers :
        \/ \E name \in RaceNames : Receive(p, name)
        \/ Resolve(p)
        \/ CheckDest(p)
        \/ EnsureBase(p)
        \/ CopyStat(p)
        \/ CopyWrite(p)

SpecRace == InitRace /\ [][NextRace]_vars

\* C8: install calls for one name do not exclude each other.  When both were
\* past the existence check before either copy was complete, both go on to
\* copy, and neither is answered AlreadyInstalled.
C8_NoMutualExclusion ==
    overlap =>
        \A p \in Servers :
            /\ pc[p] \in {"base", "copy", "done"}
            /\ pc[p] = "done" => outc[p] \in {"Installed", "InstallError"}

\* Both calls passed the check together, both copied, both answered Installed.
C8_Witness ==
    /\ overlap
    /\ req[1] = req[2]
    /\ \A p \in Servers : pc[p] = "done" /\ outc[p] = "Installed"
                          /\ pos[p] = Len(RaceOps(p))

====
